---- MODULE Spec2Model ----
(***************************************************************************)
(* Model of apps/frontend/scripts/convert-colors-to-variables.py.          *)
(*                                                                         *)
(* A text is a sequence of one-character strings.  A file is the sequence  *)
(* of characters stored on disk, so that the newline translation done by   *)
(* Path.read_text / Path.write_text is visible.  The regular expressions   *)
(* of COLOR_MAPPINGS are sequences of tokens: a one-character string is a  *)
(* literal character (compared case-insensitively, re.IGNORECASE), WS_STAR *)
(* is "\s*" and LOOKAHEAD is "(?=;|\s|})".                                 *)
(*                                                                         *)
(* The texts of the model are ASCII: decoding and encoding leave their     *)
(* characters as they are, and only the newline translation of text mode   *)
(* changes them.  The script runs on POSIX (os.linesep is "\n").  Reads    *)
(* and writes that fail are not modelled.                                  *)
(***************************************************************************)
EXTENDS Integers, Sequences, FiniteSets, TLC

(***************************************************************************)
(* Characters                                                              *)
(***************************************************************************)
CR == "\r"
LF == "\n"

\* The control characters 0x0B and 0x1C to 0x1F: vertical tab and the file,
\* group, record and unit separators.
VT == ""
FS == ""
GS == ""
RS == ""
US == ""

\* The ASCII characters matched by \s in a str pattern: those for which
\* str.isspace() is true.
Whitespace == {" ", "\t", "\n", "\r", "\f", VT, FS, GS, RS, US}

IsSpace(c) == c \in Whitespace

\* Case folding of re.IGNORECASE on the letters of the model's texts.
UpperToLower ==
  [c \in {"A","B","C","D","E","F","G","H","I","J","K","L","M",
          "N","O","P","Q","R","S","T","U","V","W","X","Y","Z"} |->
     CASE c = "A" -> "a" [] c = "B" -> "b" [] c = "C" -> "c" [] c = "D" -> "d"
       [] c = "E" -> "e" [] c = "F" -> "f" [] c = "G" -> "g" [] c = "H" -> "h"
       [] c = "I" -> "i" [] c = "J" -> "j" [] c = "K" -> "k" [] c = "L" -> "l"
       [] c = "M" -> "m" [] c = "N" -> "n" [] c = "O" -> "o" [] c = "P" -> "p"
       [] c = "Q" -> "q" [] c = "R" -> "r" [] c = "S" -> "s" [] c = "T" -> "t"
       [] c = "U" -> "u" [] c = "V" -> "v" [] c = "W" -> "w" [] c = "X" -> "x"
       [] c = "Y" -> "y" [] c = "Z" -> "z"]

Lower(c) == IF c \in DOMAIN UpperToLower THEN UpperToLower[c] ELSE c

(***************************************************************************)
(* COLOR_MAPPINGS                                                          *)
(***************************************************************************)
WS_STAR == "\\s*"
LOOKAHEAD == "(?=;|\\s|})"

Background == <<"b","a","c","k","g","r","o","u","n","d">>
BackgroundColor == Background \o <<"-","c","o","l","o","r">>
Color == <<"c","o","l","o","r">>
Border == <<"b","o","r","d","e","r">>
BorderColor == Border \o <<"-","c","o","l","o","r">>
BorderBottom == Border \o <<"-","b","o","t","t","o","m">>
BorderTop == Border \o <<"-","t","o","p">>
BorderLeft == Border \o <<"-","l","e","f","t">>
BorderRight == Border \o <<"-","r","i","g","h","t">>

Hex_ffffff == <<"#","f","f","f","f","f","f">>
White == <<"w","h","i","t","e">>
Hex_f6f8fb == <<"#","f","6","f","8","f","b">>
Hex_f0f4f8 == <<"#","f","0","f","4","f","8">>
Hex_1a1f2d == <<"#","1","a","1","f","2","d">>
Hex_5a6e8b == <<"#","5","a","6","e","8","b">>
Hex_8896aa == <<"#","8","8","9","6","a","a">>
Hex_dce3ee == <<"#","d","c","e","3","e","e">>
Hex_e8eef5 == <<"#","e","8","e","e","f","5">>
Hex_e5e7eb == <<"#","e","5","e","7","e","b">>

Solid1px == <<"1","p","x"," ","s","o","l","i","d"," ">>
Solid2px == <<"2","p","x"," ","s","o","l","i","d"," ">>

\* var(--color-<name>)
Var(name) ==
  <<"v","a","r","(","-","-","c","o","l","o","r","-">> \o name \o <<")">>

VarBgSecondary == Var(<<"b","g","-","s","e","c","o","n","d","a","r","y">>)
VarBgPrimary == Var(<<"b","g","-","p","r","i","m","a","r","y">>)
VarBgTertiary == Var(<<"b","g","-","t","e","r","t","i","a","r","y">>)
VarTextPrimary == Var(<<"t","e","x","t","-","p","r","i","m","a","r","y">>)
VarTextSecondary == Var(<<"t","e","x","t","-","s","e","c","o","n","d","a","r","y">>)
VarTextTertiary == Var(<<"t","e","x","t","-","t","e","r","t","i","a","r","y">>)
VarBorder == Var(<<"b","o","r","d","e","r">>)
VarBorderLight == Var(<<"b","o","r","d","e","r","-","l","i","g","h","t">>)

\* One entry of the table: r'<prop>:\s*<value>(?=;|\s|})' : '<prop>: <new>'
Rule(prop, value, new) ==
  [pattern |-> prop \o <<":", WS_STAR>> \o value \o <<LOOKAHEAD>>,
   replacement |-> prop \o <<":", " ">> \o new]

\* The table in insertion order, the order dict.items() iterates in.
COLOR_MAPPINGS ==
  << Rule(Background, Hex_ffffff, VarBgSecondary),
     Rule(BackgroundColor, Hex_ffffff, VarBgSecondary),
     Rule(Background, White, VarBgSecondary),
     Rule(BackgroundColor, White, VarBgSecondary),
     Rule(Background, Hex_f6f8fb, VarBgPrimary),
     Rule(BackgroundColor, Hex_f6f8fb, VarBgPrimary),
     Rule(Background, Hex_f0f4f8, VarBgTertiary),
     Rule(BackgroundColor, Hex_f0f4f8, VarBgTertiary),
     Rule(Color, Hex_1a1f2d, VarTextPrimary),
     Rule(Color, Hex_5a6e8b, VarTextSecondary),
     Rule(Color, Hex_8896aa, VarTextTertiary),
     Rule(Border, Solid1px \o Hex_dce3ee, Solid1px \o VarBorder),
     Rule(Border, Solid2px \o Hex_dce3ee, Solid2px \o VarBorder),
     Rule(BorderColor, Hex_dce3ee, VarBorder),
     Rule(BorderBottom, Solid1px \o Hex_dce3ee, Solid1px \o VarBorder),
     Rule(BorderTop, Solid1px \o Hex_dce3ee, Solid1px \o VarBorder),
     Rule(BorderLeft, Solid1px \o Hex_dce3ee, Solid1px \o VarBorder),
     Rule(BorderRight, Solid1px \o Hex_dce3ee, Solid1px \o VarBorder),
     Rule(Border, Solid1px \o Hex_e8eef5, Solid1px \o VarBorderLight),
     Rule(Border, Solid1px \o Hex_e5e7eb, Solid1px \o VarBorder) >>

(***************************************************************************)
(* re.subn(pattern, replacement, string, flags=re.IGNORECASE)              *)
(***************************************************************************)

\* Lookahead without the boundary check: the pattern ends with the literal.
LookaheadDropped(text, p) == TRUE

\* (?=;|\s|}) at position p of text: the next character exists and is one
\* of the three alternatives; nothing is consumed.
Lookahead(text, p) ==
  /\ p <= Len(text)
  /\ \/ text[p] = ";"
     \/ IsSpace(text[p])
     \/ text[p] = "}"

RECURSIVE Match(_, _, _, _)
RECURSIVE MatchStar(_, _, _, _, _)

\* The end of the longest run of whitespace that starts at p.
RECURSIVE SpanEnd(_, _)
SpanEnd(text, p) ==
  IF p <= Len(text) /\ IsSpace(text[p]) THEN SpanEnd(text, p + 1) ELSE p

\* Match tokens k.. of pat against text from position p: the position after
\* the match, or 0 when there is none.
Match(pat, k, text, p) ==
  IF k > Len(pat) THEN p
  ELSE IF pat[k] = WS_STAR THEN MatchStar(pat, k, text, p, SpanEnd(text, p))
  ELSE IF pat[k] = LOOKAHEAD
    THEN IF Lookahead(text, p) THEN Match(pat, k + 1, text, p) ELSE 0
  ELSE IF p <= Len(text) /\ Lower(text[p]) = Lower(pat[k])
    THEN Match(pat, k + 1, text, p + 1)
  ELSE 0

\* \s* is greedy: the longest run first, then shorter ones on backtracking.
MatchStar(pat, k, text, p, q) ==
  LET r == Match(pat, k + 1, text, q)
  IN  IF r # 0 THEN r
      ELSE IF q > p THEN MatchStar(pat, k, text, p, q - 1)
      ELSE 0

\* The positions from p on at which the pattern matches.
MatchStarts(pat, text, p) ==
  {q \in p..Len(text) : Match(pat, 1, text, q) # 0}

Min(S) == CHOOSE x \in S : \A y \in S : x <= y

\* The leftmost-first scan of re.subn from position p: the leftmost match at
\* or after p is replaced and the scan goes on behind it, so that matches
\* never overlap; out is the text produced so far and n the matches
\* replaced so far.
RECURSIVE SubnFrom(_, _, _, _, _, _)
SubnFrom(pat, repl, text, p, out, n) ==
  LET starts == MatchStarts(pat, text, p)
  IN  IF starts = {}
        THEN [text |-> out \o SubSeq(text, p, Len(text)), count |-> n]
        ELSE LET q == Min(starts)
             IN  SubnFrom(pat, repl, text, Match(pat, 1, text, q),
                          out \o SubSeq(text, p, q - 1) \o repl, n + 1)

\* re.subn called with count=1: only the leftmost match is replaced.
re_subn_first(pattern, replacement, string) ==
  LET starts == MatchStarts(pattern, string, 1)
  IN  IF starts = {} THEN [text |-> string, count |-> 0]
      ELSE LET q == Min(starts)
           IN  [text |-> SubSeq(string, 1, q - 1) \o replacement \o
                         SubSeq(string, Match(pattern, 1, string, q),
                                Len(string)),
                count |-> 1]

re_subn(pattern, replacement, string) ==
  SubnFrom(pattern, replacement, string, 1, <<>>, 0)

(***************************************************************************)
(* convert_colors                                                          *)
(***************************************************************************)

\* replacements += 1 for a table entry that matched: the entries that
\* matched are counted, not the matches.
AddCountEntries(replacements, count) ==
  replacements + (IF count > 0 THEN 1 ELSE 0)

\* replacements += count
AddCount(replacements, count) == replacements + count

\* The state of the loop of convert_colors after the first i table entries:
\* result and replacements.
RECURSIVE ConvertUpTo(_, _)
ConvertUpTo(content, i) ==
  IF i = 0 THEN [result |-> content, replacements |-> 0]
  ELSE LET prev == ConvertUpTo(content, i - 1)
           s == re_subn(COLOR_MAPPINGS[i].pattern,
                        COLOR_MAPPINGS[i].replacement, prev.result)
       IN  [replacements |-> AddCount(prev.replacements, s.count),
            result |-> s.text]

convert_colors(content) ==
  LET r == ConvertUpTo(content, Len(COLOR_MAPPINGS))
  IN  <<r.result, r.replacements>>

(***************************************************************************)
(* Files                                                                   *)
(***************************************************************************)

\* The target list of main(), by file name.
css_files ==
  <<"App.css", "ConfigurationPage.css", "DnsToolsPage.css", "ZonesPage.css">>

\* css_file.with_suffix(css_file.suffix + '.bak')
BackupFile(css_file) == css_file \o ".bak"

Range(seq) == {seq[k] : k \in 1..Len(seq)}

\* The file system f after data has been stored at path: the file is
\* created when there is none.
Store(f, path, data) ==
  [q \in DOMAIN f \cup {path} |-> IF q = path THEN data ELSE f[q]]

\* os.linesep of the platform the script runs on (POSIX).
os_linesep == LF

\* Path.read_text(): the characters of the file, read in text mode with
\* universal newlines: "\r\n" and a lone "\r" both arrive as "\n".
read_text(data) ==
  SelectSeq([q \in 1..Len(data) |->
               IF data[q] = CR THEN LF
               ELSE IF data[q] = LF /\ q > 1 /\ data[q - 1] = CR THEN ""
               ELSE data[q]],
            LAMBDA c : c # "")

\* The characters Path.write_text(data) stores: text mode writes every "\n"
\* as os.linesep.
write_text(data) ==
  [q \in 1..Len(data) |-> IF data[q] = LF THEN os_linesep ELSE data[q]]

(***************************************************************************)
(* State                                                                   *)
(*                                                                         *)
(* content, result1, count1, result2, count2, calls: a text, what          *)
(* convert_colors returns for it, and what convert_colors returns for that *)
(* result; calls is the number of calls made so far.                       *)
(*                                                                         *)
(* fs: the file system, a function from the paths of the files that exist  *)
(* to their characters.                                                    *)
(* pc, css_file, original_content, new_content, replacements,              *)
(* total_replacements: the position of main() and its locals; css_file is  *)
(* the index of the loop variable in css_files.                            *)
(* reported, returned: the total printed and the value returned by the     *)
(* last completed run.                                                     *)
(* runs: the number of runs started.                                       *)
(* before, start, counts, log: history.  before is the file system before  *)
(* the first run, start the file system when the current run started,      *)
(* counts the count convert_colors returned for each file the run has      *)
(* processed, log the file operations of the run in order.                 *)
(***************************************************************************)
VARIABLES content, result1, count1, result2, count2, calls,
          fs, pc, css_file, original_content, new_content, replacements,
          total_replacements, reported, returned, runs,
          before, start, counts, log

convvars == <<content, result1, count1, result2, count2, calls>>

mainvars == <<fs, pc, css_file, original_content, new_content, replacements,
              total_replacements, reported, returned, runs,
              before, start, counts, log>>

vars == <<convvars, mainvars>>

\* The state of main() before it has been run on a file system without files.
MainIdle ==
  /\ fs = <<>>
  /\ pc = "idle"
  /\ css_file = 0
  /\ original_content = <<>>
  /\ new_content = <<>>
  /\ replacements = 0
  /\ total_replacements = 0
  /\ reported = -1
  /\ returned = -1
  /\ runs = 0
  /\ before = fs
  /\ start = fs
  /\ counts = <<>>
  /\ log = <<>>

\* The examples of the specification: a longer hex value, a brace boundary.
ExampleLongerHex ==
  BackgroundColor \o <<":", " ">> \o Hex_ffffff \o <<"a", "a", ";">>
ExampleBrace == Color \o <<":", " ">> \o Hex_1a1f2d \o <<" ", "}">>
ExampleBraceConverted ==
  Color \o <<":", " ">> \o VarTextPrimary \o <<" ", "}">>

(***************************************************************************)
(* Input texts of convert_colors: one declaration, property x separator x  *)
(* value x terminator, followed by up to MaxDecls - 1 further              *)
(* declarations.                                                           *)
(***************************************************************************)
MaxDecls == 2

InProps ==
  { Color \o <<":">>, BackgroundColor \o <<":">>, BorderColor \o <<":">>,
    Background \o <<":">>, <<"B","o","r","d","e","r",":">> }

InSeps == { <<>>, <<" ">>, <<CR, LF, "\t">>, <<VT, FS, GS>> }

InValues ==
  { Hex_1a1f2d, Hex_ffffff, <<"W","H","I","T","E">>, Solid1px \o Hex_dce3ee,
    Hex_dce3ee, VarBorder }

InTerms ==
  { <<";">>, <<" ", "}">>, <<"a", "a", ";">>, <<>>, <<CR, LF>>, <<US, RS>> }

InFurther ==
  { Color \o <<":", " ">> \o Hex_1a1f2d \o <<";">>,
    Background \o <<":", LF>> \o White \o <<" ", "}">> }

RECURSIVE FurtherTexts(_)
FurtherTexts(n) ==
  IF n = 0 THEN {<<>>}
  ELSE LET shorter == FurtherTexts(n - 1)
       IN  shorter \cup {t \o d : t \in shorter, d \in InFurther}

Inputs ==
  {<<>>} \cup
  { p \o s \o v \o t \o f :
      p \in InProps, s \in InSeps, v \in InValues, t \in InTerms,
      f \in FurtherTexts(MaxDecls - 1) }

InitConv ==
  /\ content \in Inputs
  /\ result1 = <<>>
  /\ count1 = 0
  /\ result2 = <<>>
  /\ count2 = 0
  /\ calls = 0
  /\ MainIdle

\* new_content, replacements = convert_colors(content)
Convert ==
  /\ calls = 0
  /\ LET r == convert_colors(content)
     IN  /\ result1' = r[1]
         /\ count1' = r[2]
  /\ calls' = 1
  /\ UNCHANGED <<content, result2, count2, mainvars>>

\* convert_colors applied to its own output
ConvertAgain ==
  /\ calls = 1
  /\ LET r == convert_colors(result1)
     IN  /\ result2' = r[1]
         /\ count2' = r[2]
  /\ calls' = 2
  /\ UNCHANGED <<content, result1, count1, mainvars>>

NextConv == Convert \/ ConvertAgain

SpecConv == InitConv /\ [][NextConv]_vars

(***************************************************************************)
(* main()                                                                  *)
(*                                                                         *)
(* One action per step of main() between two file operations, so that the  *)
(* states a run passes through, and can be interrupted in, are states of   *)
(* the model.  write_text opens the file for writing, which creates or     *)
(* truncates it, and then stores the data.                                 *)
(***************************************************************************)
MaxRuns == 2

\* The contents a target file can have before the first run: two
\* declarations with CR-LF line ends, one declaration, nothing to convert.
FileContents ==
  { Color \o <<":", " ">> \o Hex_1a1f2d \o <<";", CR, LF>> \o
      Background \o <<":", " ">> \o White \o <<";", CR, LF>>,
    BorderColor \o <<":", " ">> \o Hex_dce3ee \o <<";", LF>>,
    ExampleLongerHex }

Init ==
  /\ content = <<>>
  /\ result1 = <<>>
  /\ count1 = 0
  /\ result2 = <<>>
  /\ count2 = 0
  /\ calls = 0
  /\ fs \in UNION {[present -> FileContents] :
                     present \in SUBSET Range(css_files)}
  /\ pc = "idle"
  /\ css_file = 0
  /\ original_content = <<>>
  /\ new_content = <<>>
  /\ replacements = 0
  /\ total_replacements = 0
  /\ reported = -1
  /\ returned = -1
  /\ runs = 0
  /\ before = fs
  /\ start = fs
  /\ counts = <<>>
  /\ log = <<>>

\* The script is started: total_replacements = 0 and the loop begins.
StartRun ==
  /\ pc \in {"idle", "done", "killed"}
  /\ runs < MaxRuns
  /\ runs' = runs + 1
  /\ pc' = "loop"
  /\ css_file' = 1
  /\ original_content' = <<>>
  /\ new_content' = <<>>
  /\ replacements' = 0
  /\ total_replacements' = 0
  /\ reported' = -1
  /\ returned' = -1
  /\ start' = fs
  /\ counts' = [f \in Range(css_files) |-> -1]
  /\ log' = <<>>
  /\ UNCHANGED <<fs, before, convvars>>

\* css_file.exists()
Exists(path) == path \in DOMAIN fs

\* A break where the code has continue: the loop ends at a missing file.
BreakAfterMissing(i) == Len(css_files) + 1

\* continue, after "file not found": the loop goes on with the next file.
ContinueAfterMissing(i) == i + 1

\* if not css_file.exists(): ... continue
SkipMissing ==
  /\ pc = "loop"
  /\ css_file <= Len(css_files)
  /\ ~Exists(css_files[css_file])
  /\ css_file' = ContinueAfterMissing(css_file)
  /\ UNCHANGED <<fs, pc, original_content, new_content, replacements,
                 total_replacements, reported, returned, runs,
                 before, start, counts, log, convvars>>

\* original_content = css_file.read_text()
\* new_content, replacements = convert_colors(original_content)
ReadAndConvert ==
  /\ pc = "loop"
  /\ css_file <= Len(css_files)
  /\ Exists(css_files[css_file])
  /\ LET f == css_files[css_file]
         text == read_text(fs[f])
         r == convert_colors(text)
     IN  /\ original_content' = text
         /\ new_content' = r[1]
         /\ replacements' = r[2]
         /\ counts' = [counts EXCEPT ![f] = r[2]]
         /\ log' = Append(log, <<"read", f>>)
  /\ pc' = "converted"
  /\ UNCHANGED <<fs, css_file, total_replacements, reported, returned, runs,
                 before, start, convvars>>

\* The test is never true: every file read is backed up and written.
NoChangesNever(n) == n < 0

\* if replacements == 0
NoChanges(n) == n = 0

\* if replacements == 0: ... continue
SkipUnchanged ==
  /\ pc = "converted"
  /\ NoChanges(replacements)
  /\ pc' = "loop"
  /\ css_file' = css_file + 1
  /\ UNCHANGED <<fs, original_content, new_content, replacements,
                 total_replacements, reported, returned, runs,
                 before, start, counts, log, convvars>>

\* backup_file.write_text(original_content): the backup is opened for
\* writing, which creates it empty or truncates it.
BackupOpen ==
  /\ pc = "converted"
  /\ ~NoChanges(replacements)
  /\ LET backup_file == BackupFile(css_files[css_file])
     IN  /\ fs' = Store(fs, backup_file, <<>>)
         /\ log' = Append(log, <<"open", backup_file>>)
  /\ pc' = "backup_opened"
  /\ UNCHANGED <<css_file, original_content, new_content, replacements,
                 total_replacements, reported, returned, runs,
                 before, start, counts, convvars>>

\* backup_file.write_text(original_content): the data is stored.
BackupWrite ==
  /\ pc = "backup_opened"
  /\ LET backup_file == BackupFile(css_files[css_file])
     IN  /\ fs' = Store(fs, backup_file, write_text(original_content))
         /\ log' = Append(log, <<"write", backup_file>>)
  /\ pc' = "backed_up"
  /\ UNCHANGED <<css_file, original_content, new_content, replacements,
                 total_replacements, reported, returned, runs,
                 before, start, counts, convvars>>

\* css_file.write_text(new_content): the target is opened for writing,
\* which truncates it.
CssOpen ==
  /\ pc = "backed_up"
  /\ LET f == css_files[css_file]
     IN  /\ fs' = Store(fs, f, <<>>)
         /\ log' = Append(log, <<"open", f>>)
  /\ pc' = "css_opened"
  /\ UNCHANGED <<css_file, original_content, new_content, replacements,
                 total_replacements, reported, returned, runs,
                 before, start, counts, convvars>>

\* css_file.write_text(new_content): the data is stored;
\* total_replacements += replacements, and the loop goes on.
CssWrite ==
  /\ pc = "css_opened"
  /\ LET f == css_files[css_file]
     IN  /\ fs' = Store(fs, f, write_text(new_content))
         /\ log' = Append(log, <<"write", f>>)
  /\ total_replacements' = total_replacements + replacements
  /\ css_file' = css_file + 1
  /\ pc' = "loop"
  /\ UNCHANGED <<original_content, new_content, replacements,
                 reported, returned, runs, before, start, counts, convvars>>

\* After the loop: the total is printed and main() returns 0.
Finish ==
  /\ pc = "loop"
  /\ css_file > Len(css_files)
  /\ reported' = total_replacements
  /\ returned' = 0
  /\ pc' = "done"
  /\ UNCHANGED <<fs, css_file, original_content, new_content, replacements,
                 total_replacements, runs, before, start, counts, log,
                 convvars>>

Running == {"loop", "converted", "backup_opened", "backed_up", "css_opened"}

\* The run is interrupted (a signal, a crash) where it stands.
Interrupt ==
  /\ pc \in Running
  /\ pc' = "killed"
  /\ UNCHANGED <<fs, css_file, original_content, new_content, replacements,
                 total_replacements, reported, returned, runs,
                 before, start, counts, log, convvars>>

\* Runs that are left to complete, one after the other.
Next ==
  \/ StartRun
  \/ SkipMissing
  \/ ReadAndConvert
  \/ SkipUnchanged
  \/ BackupOpen
  \/ BackupWrite
  \/ CssOpen
  \/ CssWrite
  \/ Finish

Spec == Init /\ [][Next]_vars

\* Runs that can be interrupted.
NextInterrupted == Next \/ Interrupt

SpecInterrupted == Init /\ [][NextInterrupted]_vars

(***************************************************************************)
(* Properties of convert_colors                                            *)
(***************************************************************************)

\* The characters the specification lets follow a replaced colour: the
\* statement terminator, the closing brace, and the whitespace characters
\* of ASCII (space, the controls 0x09 to 0x0D and 0x1C to 0x1F).
BoundaryChars ==
  {";", "}", " ", "\t", "\n", "\r", "\f", VT, FS, GS, RS, US}

\* The colour literals of the mapping table.
ColourLiterals ==
  { Hex_ffffff, White, Hex_f6f8fb, Hex_f0f4f8, Hex_1a1f2d, Hex_5a6e8b,
    Hex_8896aa, Hex_dce3ee, Hex_e8eef5, Hex_e5e7eb }

\* The word w stands in t at position q, letter case ignored.
OccursAt(w, t, q) ==
  /\ q >= 1
  /\ q + Len(w) - 1 <= Len(t)
  /\ \A k \in 1..Len(w) : Lower(t[q + k - 1]) = Lower(w[k])

\* The occurrences <<literal, position>> of colour literals in t that are
\* directly followed by a boundary character.
BoundedLiterals(t) ==
  { x \in ColourLiterals \X (1..Len(t)) :
      /\ OccursAt(x[1], t, x[2])
      /\ x[2] + Len(x[1]) <= Len(t)
      /\ t[x[2] + Len(x[1])] \in BoundaryChars }

\* The occurrences of colour literals in t that are followed by another
\* character or by the end of t.
UnboundedLiterals(t) ==
  { x \in ColourLiterals \X (1..Len(t)) :
      /\ OccursAt(x[1], t, x[2])
      /\ \/ x[2] + Len(x[1]) > Len(t)
         \/ t[x[2] + Len(x[1])] \notin BoundaryChars }

NumChar(t, c) == Cardinality({q \in 1..Len(t) : t[q] = c})

\* How many closing parentheses of t are directly followed by a boundary
\* character.
NumClosedBounded(t) ==
  Cardinality({q \in 1..(Len(t) - 1) :
                 t[q] = ")" /\ t[q + 1] \in BoundaryChars})

\* How many times "var(--color-" stands in t.
VarPrefix == <<"v","a","r","(","-","-","c","o","l","o","r","-">>
NumVars(t) == Cardinality({q \in 1..Len(t) : OccursAt(VarPrefix, t, q)})


\* C4: convert_colors replaces a colour literal only where it is directly
\* followed by ';', whitespace or '}': there are at most as many
\* replacements as such occurrences, a text without any comes back
\* unchanged with count 0 (so a literal followed by another character or by
\* the end of the text is left alone, as in 'background-color: #ffffffaa;'),
\* 'color: #1a1f2d }' becomes 'color: var(--color-text-primary) }' with
\* count 1, and the boundary character is not consumed: every replacement
\* text is followed by it, and no ';' or '}' is lost.
C4_ReplacedOnlyBeforeBoundary ==
  calls >= 1 =>
    /\ count1 <= Cardinality(BoundedLiterals(content))
    /\ BoundedLiterals(content) = {} => result1 = content /\ count1 = 0
    /\ NumClosedBounded(result1) = NumClosedBounded(content) + count1
    /\ NumChar(result1, ";") = NumChar(content, ";")
    /\ NumChar(result1, "}") = NumChar(content, "}")
    /\ content = ExampleLongerHex => result1 = content /\ count1 = 0
    /\ content = ExampleBrace =>
         result1 = ExampleBraceConverted /\ count1 = 1

\* A text with a literal that continues with hex digits and a literal before
\* ';' has been converted: the first is left, the second replaced.
C4_Witness ==
  /\ calls >= 1
  /\ content = ExampleLongerHex \o Color \o <<":", " ">> \o Hex_1a1f2d \o <<";">>
  /\ result1 = ExampleLongerHex \o Color \o <<":", " ">> \o VarTextPrimary \o <<";">>
  /\ count1 = 1
  /\ UnboundedLiterals(content) # {}

\* C5: convert_colors is idempotent: applied to its own output it returns
\* that output unchanged with count 0.
C5_Idempotent ==
  calls = 2 => result2 = result1 /\ count2 = 0

\* convert_colors has been applied to the output of a call that replaced at
\* least two colours.
C5_Witness ==
  /\ calls = 2
  /\ count1 >= 2
  /\ result1 # content

\* The part of a pattern before \s* and the part between \s* and the
\* lookahead.
StarAt(pat) == CHOOSE k \in 1..Len(pat) : pat[k] = WS_STAR
PatternProperty(pat) == SubSeq(pat, 1, StarAt(pat) - 1)
PatternValue(pat) == SubSeq(pat, StarAt(pat) + 1, Len(pat) - 1)

\* The pattern occurs in t at position q: its property and colon, any
\* number w of whitespace characters, its value, then a boundary character.
PatternOccursAt(pat, t, q) ==
  LET prop == PatternProperty(pat)
      value == PatternValue(pat)
  IN  /\ OccursAt(prop, t, q)
      /\ \E w \in 0..(Len(t) - q) :
           /\ q + Len(prop) + w + Len(value) <= Len(t)
           /\ \A k \in 0..(w - 1) : t[q + Len(prop) + k] \in BoundaryChars \ {";", "}"}
           /\ OccursAt(value, t, q + Len(prop) + w)
           /\ t[q + Len(prop) + w + Len(value)] \in BoundaryChars

NoPatternOccurs(t) ==
  \A i \in 1..Len(COLOR_MAPPINGS) : \A q \in 1..Len(t) :
    ~PatternOccursAt(COLOR_MAPPINGS[i].pattern, t, q)

\* C6: a text in which no pattern of the table occurs comes back unchanged
\* with count 0, and the count returned is the number of matches replaced
\* over all table entries: the number of var(--color-...) references the
\* result has more than the input.
C6_CountIsMatchesReplaced ==
  calls >= 1 =>
    /\ NoPatternOccurs(content) => result1 = content /\ count1 = 0
    /\ count1 = NumVars(result1) - NumVars(content)

\* Two matches of two different table entries have been replaced.
C6_Witness ==
  /\ calls >= 1
  /\ count1 = 2
  /\ NumVars(content) = 0
  /\ OccursAt(Color, content, 1)
  /\ \E q \in 1..Len(content) : OccursAt(Background \o <<":">>, content, q)

\* A text in which no pattern occurs although it holds colour literals.
C6_WitnessNoOccurrence ==
  /\ calls >= 1
  /\ NoPatternOccurs(content)
  /\ UnboundedLiterals(content) # {}
  /\ result1 = content

\* The characters of a property name.
NameChars ==
  {"a","b","c","d","e","f","g","h","i","j","k","l","m","n","o","p","q","r",
   "s","t","u","v","w","x","y","z","-"}

\* The matches of table entry i start a property name: at the start of the
\* text it is applied to, or after a character that is not part of a name.
RewritesOwnProperty(i, t) ==
  \A q \in MatchStarts(COLOR_MAPPINGS[i].pattern, t, 1) :
    q = 1 \/ Lower(t[q - 1]) \notin NameChars

\* C10: each rule rewrites only declarations of the property it names: the
\* 'color:' rule for #1a1f2d leaves 'background-color: #1a1f2d;' and
\* 'border-color: #1a1f2d;' unchanged with count 0.
C10_RuleRewritesOnlyItsProperty ==
  calls >= 1 =>
    /\ \A i \in 1..Len(COLOR_MAPPINGS) :
         RewritesOwnProperty(i, ConvertUpTo(content, i - 1).result)
    /\ content = BackgroundColor \o <<":", " ">> \o Hex_1a1f2d \o <<";">>
         => result1 = content /\ count1 = 0
    /\ content = BorderColor \o <<":", " ">> \o Hex_1a1f2d \o <<";">>
         => result1 = content /\ count1 = 0

(***************************************************************************)
(* Properties of main()                                                    *)
(***************************************************************************)

CssFiles == Range(css_files)

\* A run has been started.
InRun == pc # "idle"

\* The run has opened or written the file at path.
Written(path) ==
  \E k \in 1..Len(log) : log[k] = <<"open", path>> \/ log[k] = <<"write", path>>

\* The file at path is the same as when the run started: as absent, or with
\* the same characters.
Untouched(path) ==
  /\ path \in DOMAIN fs <=> path \in DOMAIN start
  /\ path \in DOMAIN start => fs[path] = start[path]

\* The path holds exactly the characters data.
Holds(path, data) == path \in DOMAIN fs /\ fs[path] = data

\* The sum over the first k target files of the matchable patterns each
\* held when the run started.
RECURSIVE SumMatchable(_)
SumMatchable(k) ==
  IF k = 0 THEN 0
  ELSE SumMatchable(k - 1) +
       (IF css_files[k] \in DOMAIN start
          THEN convert_colors(start[css_files[k]])[2] ELSE 0)

\* C1: after a run, every target file that existed and held N >= 1
\* matchable patterns holds the text convert_colors returns for the content
\* it had, and the total reported is the sum of those N.
C1_FilesConvertedAndTotal ==
  pc = "done" =>
    /\ \A f \in CssFiles \cap DOMAIN start :
         convert_colors(start[f])[2] >= 1 =>
           Holds(f, convert_colors(start[f])[1])
    /\ reported = SumMatchable(Len(css_files))

\* C2: for every target file a run has modified, the backup holds an exact
\* copy of the characters the file had before the run.
C2_BackupIsExactCopy ==
  pc = "done" =>
    \A f \in CssFiles \cap DOMAIN start :
      Written(f) => Holds(BackupFile(f), start[f])

\* The sum over the first k target files of the counts convert_colors
\* returned in this run.
RECURSIVE SumCounts(_)
SumCounts(k) ==
  IF k = 0 THEN 0
  ELSE SumCounts(k - 1) +
       (IF counts[css_files[k]] > 0 THEN counts[css_files[k]] ELSE 0)

\* C3: when convert_colors has returned count 0 for a target file, the run
\* writes nothing for it: the file is as it was, no backup is created, a
\* backup that existed is as it was; only files with at least one
\* substitution get a backup written and add to the reported total.
C3_NoWriteWithoutSubstitution ==
  InRun =>
    /\ \A f \in CssFiles :
         counts[f] = 0 =>
           /\ ~Written(f) /\ ~Written(BackupFile(f))
           /\ Untouched(f) /\ Untouched(BackupFile(f))
    /\ \A f \in CssFiles : Written(BackupFile(f)) => counts[f] >= 1
    /\ pc = "done" =>
         reported = SumCounts(Len(css_files))

\* A second run has ended in which convert_colors returned 0 for a file that
\* has a backup of the first run and for a file that has none.
C3_Witness ==
  /\ pc = "done"
  /\ runs = 2
  /\ \E f, g \in CssFiles :
       /\ counts[f] = 0 /\ BackupFile(f) \in DOMAIN fs
       /\ counts[g] = 0 /\ BackupFile(g) \notin DOMAIN fs
       /\ g \in DOMAIN fs

\* The files the run has read, in the order it read them.
FilesRead ==
  LET reads == SelectSeq(log, LAMBDA e : e[1] = "read")
  IN  [k \in 1..Len(reads) |-> reads[k][2]]

\* C7: a missing target file does not end the run: when the run is over,
\* every target file that existed has been processed, in list order, no
\* file and no backup has been created at a missing path, the total has
\* been reported and main() has returned 0.
C7_MissingFileSkipped ==
  pc = "done" =>
    /\ FilesRead = SelectSeq(css_files, LAMBDA f : f \in DOMAIN start)
    /\ \A f \in CssFiles \ DOMAIN start :
         /\ f \notin DOMAIN fs
         /\ BackupFile(f) \notin DOMAIN fs
    /\ reported = total_replacements
    /\ reported = SumCounts(Len(css_files))
    /\ returned = 0

\* A run is over in which the first and the third target file were missing
\* and the second and the fourth were converted.
C7_Witness ==
  /\ pc = "done"
  /\ css_files[1] \notin DOMAIN start
  /\ css_files[3] \notin DOMAIN start
  /\ FilesRead = <<css_files[2], css_files[4]>>
  /\ counts[css_files[2]] >= 1
  /\ counts[css_files[4]] >= 1
  /\ reported = counts[css_files[2]] + counts[css_files[4]]

\* C8: the backup is written before the target is opened for writing, and
\* in every state of a run, interrupted or not, what each target file held
\* when the run started is stored complete in the file or in its backup.
C8_OriginalAlwaysStored ==
  InRun =>
    /\ \A f \in CssFiles : \A k \in 1..Len(log) :
         log[k] = <<"open", f>> =>
           \E j \in 1..(k - 1) : log[j] = <<"write", BackupFile(f)>>
    /\ \A f \in CssFiles \cap DOMAIN start :
         Holds(f, start[f]) \/ Holds(BackupFile(f), start[f])

\* The backup of f is being written: opened, its data not yet stored.
BackupInProgress(f) ==
  pc = "backup_opened" /\ css_files[css_file] = f

\* C9: a backup that an earlier run has created is neither deleted nor
\* written again by a later run, and a backup holds what its file held
\* before the first run that modified it.
C9_BackupPermanent ==
  \A f \in CssFiles :
    /\ BackupFile(f) \in DOMAIN start =>
         /\ BackupFile(f) \in DOMAIN fs
         /\ ~Written(BackupFile(f))
    /\ BackupFile(f) \in DOMAIN fs /\ ~BackupInProgress(f) =>
         fs[BackupFile(f)] = before[f]

====
